---- MODULE Spec2Model ----
(***************************************************************************)
(* A model of Scripts/base_functions.py of OSIBL-IRMS-processing:          *)
(* import_data (schema normalisation, segregation of linearity standards,   *)
(* drift standards and unknown samples, the operator prompts of             *)
(* ask_user_for_rt and the call of process_dataframe) and the               *)
(* retention-time classifier process_dataframe with closest_rt.             *)
(*                                                                         *)
(* Conventions.                                                            *)
(*  - A row of the table is a record [idx, id, Date, Time, Rt, chain].      *)
(*    idx is the row's index label (read_csv gives 0,1,2,...; here 1,2,..). *)
(*    id is "Identifier 1", kept as the set of marker substrings it         *)
(*    contains (str.contains(m) is m \in id).  Date and Time are the        *)
(*    ordinals of the day and of the time of day.  Rt is the retention      *)
(*    time in hundredths (500.01 is 50001).  chain is the label, with       *)
(*    "<None>" for Python's None and "<NA>" for pandas' missing value.      *)
(*  - An optional float (an rt_dict entry) is <<>> for None and <<v>>.      *)
(*  - Operator input is a string; strip/lower, split and float are tables   *)
(*    over the inputs that are enumerated.                                  *)
(***************************************************************************)
EXTENDS Integers, Sequences, FiniteSets, TLC

VARIABLES
    pc,             \* position in import_data / process_dataframe
    err,            \* the exception that ended the run, "" when none
    isotope,        \* import_data's isotope argument
    columns,        \* df.columns, a sequence of column headers
    df,             \* the table at hand (import_data's df, process_dataframe's df)
    linearity_std,  \* import_data's three subsets, sequences of rows
    drift_std,
    unknown,
    rt_dict,        \* [kind: "unset" | "None" | "dict", map: chain -> optional float]
    lastInput,      \* the operator's latest answer: [prompt, text]
    returned,       \* TRUE once import_data has returned its four values
    correction_log, \* make_correction_df()'s table once built
    pass,           \* which application of process_dataframe is running (1 or 2)
    unique_times,   \* process_dataframe's unique_times
    ti,             \* position of time_val in unique_times
    ci,             \* position of chain in chain_lengths (the rt_dict.items() loop)
    closest_rows,   \* the candidates shown at a near-tie prompt
    export_df,      \* process_dataframe's return value
    out1,           \* the return value of the first application
    step,           \* the latest (time_val, chain) step: [kind, time, chain, before, group, cands]
    picks,          \* first application: <<Time, chain, {Rt labelled}>>, {} on 'none'
    declined,       \* first application: some prompt was answered 'none'
    samePicks       \* second application: every prompt was answered as in the first

vars == <<pc, err, isotope, columns, df, linearity_std, drift_std, unknown, rt_dict,
          lastInput, returned, correction_log, pass, unique_times, ti, ci,
          closest_rows, export_df, out1, step, picks, declined, samePicks>>

importVars == <<isotope, columns, linearity_std, drift_std, unknown, returned, correction_log>>

pdVars == <<pass, unique_times, ti, ci, closest_rows, export_df, out1, step, picks,
            declined, samePicks>>

----------------------------------------------------------------------------
(* Bounds of the model.                                                    *)

\* rows of a run table given to import_data
MaxRows == 4
\* rows of a run table of drift standards
MaxDriftRows == 5
\* distinct times of day of the drift-standard rows
MaxTime == 5
\* rows of a table given to process_dataframe
MaxPdRows == 2

----------------------------------------------------------------------------
(* Generic helpers.                                                        *)

Range(s) == {s[i] : i \in 1..Len(s)}

SeqsUpTo(S, n) == UNION {[1..k -> S] : k \in 0..n}

\* Series.unique(): the distinct values in order of first appearance
RECURSIVE Unique(_)
Unique(s) ==
    IF s = <<>> THEN <<>>
    ELSE LET rest == Unique(SubSeq(s, 1, Len(s) - 1))
             x == s[Len(s)]
         IN IF x \in Range(rest) THEN rest ELSE Append(rest, x)

\* the row labels 1..n given by read_csv
WithIndex(s) == [i \in 1..Len(s) |-> [idx |-> i, id |-> s[i].id, Date |-> s[i].Date,
                                     Time |-> s[i].Time, Rt |-> s[i].Rt,
                                     chain |-> s[i].chain]]

None == "<None>"
NA == "<NA>"

Min(a, b) == IF a <= b THEN a ELSE b

----------------------------------------------------------------------------
(* import_data, lines 71-88: the schema normaliser.                        *)
(* A column header is [name, extra, origin]: name is the header text when   *)
(* extra is FALSE and a text that contains name, with more around it, when  *)
(* extra is TRUE; origin is <<name, extra>> of the header read from the     *)
(* file whose data the column holds, or <<>> for a column created with      *)
(* pd.NA.  The vocabulary has no header that is a substring of another.     *)

Header(n, x) == [name |-> n, extra |-> x, origin |-> <<n, x>>]

iso_rat(iso) == IF iso = "dD" THEN "d 2H/1H" ELSE "d 13C/12C"

new_name(iso) == <<iso, "area", "chain">>

source_names(iso) == <<iso_rat(iso), "Area All", "Component">>

\* name in df.columns
InColumns(cols, n) == \E i \in 1..Len(cols) : cols[i].name = n /\ ~cols[i].extra

\* df.columns.str.contains(name)
ColumnsContaining(cols, n) == {i \in 1..Len(cols) : cols[i].name = n}

\* df.rename(columns={df.columns[df.columns.str.contains(name)][0]: new})
RenameFirstContaining(cols, n, new) ==
    LET S == ColumnsContaining(cols, n)
        k == CHOOSE i \in S : \A j \in S : i <= j
    IN [cols EXCEPT ![k] = [name |-> new, extra |-> FALSE, origin |-> cols[k].origin]]

\* the counter of line 81, as the code has it: advanced only where a rename was made
NextX(x, renamed) == IF renamed THEN x + 1 ELSE x

\* the for loop of lines 78-84, from the k-th name on, with the counter at x
RECURSIVE NormalizeLoop(_, _, _, _)
NormalizeLoop(cols, iso, k, x) ==
    IF k > Len(source_names(iso)) THEN cols
    ELSE LET n == source_names(iso)[k]
         IN IF InColumns(cols, n)
            THEN NormalizeLoop(RenameFirstContaining(cols, n, new_name(iso)[x + 1]),
                               iso, k + 1, NextX(x, TRUE))
            ELSE NormalizeLoop(Append(cols, [name |-> n, extra |-> FALSE, origin |-> <<>>]),
                               iso, k + 1, NextX(x, FALSE))

\* date2num(try_parse_date(Date + " " + Time)): later day first, then time of day
DateNum(r) == r.Date * (MaxTime + 1) + r.Time

Normalize ==
    /\ pc = "normalize"
    /\ columns' = NormalizeLoop(columns, isotope, 1, 0)
    /\ pc' = "segregate"
    /\ UNCHANGED <<err, isotope, df, linearity_std, drift_std, unknown, rt_dict,
                   lastInput, returned, correction_log>>
    /\ UNCHANGED pdVars

----------------------------------------------------------------------------
(* import_data, lines 91-110: the segregator.                              *)

\* df["Identifier 1"].str.contains(a) & df["Identifier 1"].str.contains(b)
ContainsBoth(r, a, b) == a \in r.id /\ b \in r.id

\* lines 91-92
LinearityRows(t) ==
    SelectSeq(t, LAMBDA r : ContainsBoth(r, "C20", "C28") /\ r.chain \in {"C20", "C28"})

\* lines 95-96 without the label filter of line 96
DriftRows_AnyLabel(t) == SelectSeq(t, LAMBDA r : ContainsBoth(r, "C18", "C24"))

\* lines 95-96
DriftRows(t) ==
    SelectSeq(t, LAMBDA r : ContainsBoth(r, "C18", "C24") /\ r.chain \in {"C18", "C24"})

\* every order of the rows of set S that ascends in the timestamp
RECURSIVE AscendingOrders(_)
AscendingOrders(S) ==
    IF S = {} THEN {<<>>}
    ELSE LET firsts == {r \in S : \A q \in S : DateNum(r) <= DateNum(q)}
         IN UNION {{<<r>> \o rest : rest \in AscendingOrders(S \ {r})} : r \in firsts}

\* line 100 left out: the rows stay in input order
sort_values_skipped(t) == {t}

\* line 100, drift_std.sort_values("date-time_true"): the default sort kind is
\* quicksort, which is not stable, so rows of one timestamp come out in any order
sort_values(t) == AscendingOrders(Range(t))

\* line 102, the slice the code had before: unique_time_signatures[6:]
time_signatures_from_sixth(sorted) ==
    LET u == Unique([i \in 1..Len(sorted) |-> DateNum(sorted[i])])
    IN Range(SubSeq(u, 7, Len(u)))

\* lines 101-103: unique_time_signatures[:2]
time_signatures_to_remove(sorted) ==
    LET u == Unique([i \in 1..Len(sorted) |-> DateNum(sorted[i])])
    IN Range(SubSeq(u, 1, Min(2, Len(u))))

\* line 104
DriftExclude(sorted) ==
    LET remove == time_signatures_to_remove(sorted)
    IN SelectSeq(sorted, LAMBDA r : DateNum(r) \notin remove)

\* lines 106-110; the pattern "H3+" of line 110 is a regular expression, an H
\* followed by one or more 3, so it is found in every identifier that holds "H3"
UnknownRows(t) ==
    SelectSeq(t, LAMBDA r : /\ ~ContainsBoth(r, "C18", "C24")
                            /\ ~ContainsBoth(r, "C20", "C28")
                            /\ "H3" \notin r.id)

Segregate ==
    /\ pc = "segregate"
    /\ InColumns(columns, "chain")
    /\ linearity_std' = LinearityRows(df)
    /\ \E sorted \in sort_values(DriftRows(df)) : drift_std' = DriftExclude(sorted)
    /\ unknown' = UnknownRows(df)
    /\ pc' = "ask_yn"
    /\ UNCHANGED <<err, isotope, columns, df, rt_dict, lastInput, returned, correction_log>>
    /\ UNCHANGED pdVars

\* line 92, linearity_std.chain, on a table that has no column named chain
SegregateNoChain ==
    /\ pc = "segregate"
    /\ ~InColumns(columns, "chain")
    /\ pc' = "raised"
    /\ err' = "AttributeError"
    /\ UNCHANGED <<isotope, columns, df, linearity_std, drift_std, unknown, rt_dict,
                   lastInput, returned, correction_log>>
    /\ UNCHANGED pdVars

----------------------------------------------------------------------------
(* ask_user_for_rt, lines 165-183.                                         *)

chain_lengths == <<"C16", "C18", "C20", "C22", "C24", "C26", "C28", "C30", "C32">>

\* answers typed at the yes/no prompt
YesNoInputs == {"Y", " no ", "maybe"}

\* answers typed at the retention-time prompt
RtInputs == {"none,500,none,none,510,none,none,none,none",
             " None, 500 ,none,none,none,none,none,none,none",
             "none,abc,none,none,510,none,none,none,none",
             "500,510"}

\* str.strip().lower() on the strings that occur
StripLower(s) ==
    CASE s = "Y" -> "y"
      [] s = " no " -> "no"
      [] s = " None" -> "none"
      [] s = " 500 " -> "500"
      [] s = " 2 " -> "2"
      [] OTHER -> s

\* str.split(",") on the retention-time answers
Split(s) ==
    CASE s = "none,500,none,none,510,none,none,none,none" ->
             <<"none", "500", "none", "none", "510", "none", "none", "none", "none">>
      [] s = " None, 500 ,none,none,none,none,none,none,none" ->
             <<" None", " 500 ", "none", "none", "none", "none", "none", "none", "none">>
      [] s = "none,abc,none,none,510,none,none,none,none" ->
             <<"none", "abc", "none", "none", "510", "none", "none", "none", "none">>
      [] s = "500,510" -> <<"500", "510">>
      [] OTHER -> <<s>>

\* the strings float() accepts, with the value in hundredths
FloatTable == ("500" :> 50000) @@ ("510" :> 51000)

IsFloat(s) == s \in DOMAIN FloatTable

\* queries.pos_response and queries.neg_response
pos_response(response) == response \in {"y", "yes"}

neg_response(response) == response \in {"n", "no"}

NoEntries == [c \in Range(chain_lengths) |-> <<>>]

\* line 174: the dict comprehension over zip(chain_lengths, rt_values)
RtDictOf(tokens) ==
    [c \in Range(chain_lengths) |->
        LET k == CHOOSE i \in 1..Len(chain_lengths) : chain_lengths[i] = c
            t == StripLower(tokens[k])
        IN IF t = "none" THEN <<>> ELSE <<FloatTable[t]>>]

\* line 174 raises ValueError at the first entry float() rejects
FloatRaises(tokens) ==
    \E k \in 1..Min(Len(tokens), Len(chain_lengths)) :
        StripLower(tokens[k]) # "none" /\ ~IsFloat(StripLower(tokens[k]))

\* lines 168-169 and 178-183
AskYesNo ==
    /\ pc = "ask_yn"
    /\ \E text \in YesNoInputs :
        LET response == StripLower(text)
        IN /\ lastInput' = [prompt |-> "yn", text |-> text]
           /\ IF pos_response(response)
              THEN pc' = "ask_rt" /\ rt_dict' = rt_dict
              ELSE IF neg_response(response)
              THEN pc' = "classify" /\ rt_dict' = [kind |-> "None", map |-> NoEntries]
              ELSE pc' = "ask_yn" /\ rt_dict' = rt_dict
    /\ UNCHANGED <<err, df>>
    /\ UNCHANGED importVars
    /\ UNCHANGED pdVars

\* lines 171-177
AskRtValues ==
    /\ pc = "ask_rt"
    /\ \E text \in RtInputs :
        LET rt_values == Split(text)
        IN /\ lastInput' = [prompt |-> "rt", text |-> text]
           /\ IF Len(rt_values) = Len(chain_lengths)
              THEN IF FloatRaises(rt_values)
                   THEN pc' = "raised" /\ err' = "ValueError" /\ rt_dict' = rt_dict
                   ELSE /\ pc' = "classify"
                        /\ err' = err
                        /\ rt_dict' = [kind |-> "dict", map |-> RtDictOf(rt_values)]
              ELSE pc' = "ask_yn" /\ err' = err /\ rt_dict' = rt_dict
    /\ UNCHANGED df
    /\ UNCHANGED importVars
    /\ UNCHANGED pdVars

----------------------------------------------------------------------------
(* import_data, lines 111-122: classification and return.                  *)

\* def process_dataframe(df, rt_dict, folder_path, log_file_path), line 186
process_dataframe_params == <<"df", "rt_dict", "folder_path", "log_file_path">>

\* process_dataframe(unknown, rt_dict, folder_path), lines 113, 115 and 116
import_data_call_args == <<"unknown", "rt_dict", "folder_path">>

\* a call binds when every parameter, none of which has a default, gets an argument
CallBinds(params, args) == Len(args) = Len(params)

\* if rt_dict: a dict of nine entries is true, None is false
Truthy(d) == d.kind = "dict"

\* line 118 (the list names C24 twice)
Whitelist == {"C16", "C18", "C20", "C22", "C24", "C26", "C28", "C30", "C32"}

\* make_correction_df, lines 10-17
make_correction_df == [t \in {"Drift", "Linearity", "VSMOW", "Methylation"} |-> 0]

\* lines 112-113: the first call of process_dataframe passes three arguments
\* for four parameters and raises TypeError before the function's body runs
ClassifyCall ==
    /\ pc = "classify"
    /\ Truthy(rt_dict)
    /\ ~CallBinds(process_dataframe_params, import_data_call_args)
    /\ pc' = "raised"
    /\ err' = "TypeError"
    /\ UNCHANGED <<df, rt_dict, lastInput>>
    /\ UNCHANGED importVars
    /\ UNCHANGED pdVars

\* lines 117-122; the loop of lines 119-120 rebinds its own variable i and
\* changes none of the three tables
SkipClassify ==
    /\ pc = "classify"
    /\ ~Truthy(rt_dict)
    /\ unknown' = SelectSeq(unknown, LAMBDA r : r.chain \in Whitelist)
    /\ correction_log' = make_correction_df
    /\ returned' = TRUE
    /\ pc' = "returned"
    /\ UNCHANGED <<err, isotope, columns, df, linearity_std, drift_std, rt_dict, lastInput>>
    /\ UNCHANGED pdVars

----------------------------------------------------------------------------
(* The run tables and headers import_data is started on.                   *)

IdDrift == {"C18", "C24"}
IdLinearity == {"C20", "C28"}
IdBoth == {"C18", "C20", "C24", "C28"}
IdSample == {}
IdH3 == {"H3"}

Row(i, d, t, c) == [id |-> i, Date |-> d, Time |-> t, Rt |-> 50000, chain |-> c]

\* rows of every kind: drift standards at four times of day, a linearity
\* standard, a row whose identifier holds all four markers, a sample, an H3 row
ImportRows ==
    {Row(IdDrift, 1, t, "C18") : t \in 1..4}
        \cup {Row(IdLinearity, 1, 1, "C28"), Row(IdBoth, 2, 1, "C20"),
              Row(IdSample, 1, 3, "C16"), Row(IdH3, 1, 1, NA)}

\* drift standards at every time of day, and a row with the drift markers in
\* its identifier whose label is not a drift label
DriftRunRows ==
    {Row(IdDrift, 1, t, "C18") : t \in 1..MaxTime} \cup {Row(IdBoth, 1, 1, "C20")}

\* the headers of a well-formed export, for mode iso
GoodHeaders(iso) == <<Header(iso_rat(iso), FALSE), Header("Area All", FALSE),
                      Header("Component", FALSE)>>

\* exports with a header missing, decorated, or of the other mode
HeaderLists ==
    {a \o b \o c :
        a \in {<<>>, <<Header("d 2H/1H", FALSE)>>, <<Header("d 13C/12C", FALSE)>>,
               <<Header("d 2H/1H", TRUE)>>},
        b \in {<<>>, <<Header("Area All", FALSE)>>, <<Header("Area All", TRUE)>>,
               <<Header("Area All", TRUE), Header("Area All", FALSE)>>},
        c \in {<<>>, <<Header("Component", FALSE)>>, <<Header("Component", TRUE)>>}}

NoStep == [kind |-> "none", time |-> 0, chain |-> "", before |-> <<>>, group |-> <<>>,
           cands |-> <<>>]

PdIdle ==
    /\ pass = 0
    /\ unique_times = <<>>
    /\ ti = 0
    /\ ci = 0
    /\ closest_rows = <<>>
    /\ export_df = <<>>
    /\ out1 = <<>>
    /\ step = NoStep
    /\ picks = {}
    /\ declined = FALSE
    /\ samePicks = TRUE

ImportStart ==
    /\ pc = "normalize"
    /\ err = ""
    /\ linearity_std = <<>>
    /\ drift_std = <<>>
    /\ unknown = <<>>
    /\ rt_dict = [kind |-> "unset", map |-> NoEntries]
    /\ lastInput = [prompt |-> "", text |-> ""]
    /\ returned = FALSE
    /\ correction_log = <<>>
    /\ PdIdle

\* any export headers, a table of at most one row
InitHeaders ==
    /\ isotope \in {"dD", "dC"}
    /\ columns \in HeaderLists
    /\ df \in {WithIndex(t) : t \in SeqsUpTo(ImportRows, 1)}
    /\ ImportStart

\* a well-formed export, any table of at most MaxRows rows
InitTables ==
    /\ isotope = "dD"
    /\ columns = GoodHeaders(isotope)
    /\ df \in {WithIndex(t) : t \in SeqsUpTo(ImportRows, MaxRows)}
    /\ ImportStart

\* a well-formed export of a run of drift standards
InitDrift ==
    /\ isotope = "dD"
    /\ columns = GoodHeaders(isotope)
    /\ df \in {WithIndex(t) : t \in SeqsUpTo(DriftRunRows, MaxDriftRows)}
    /\ ImportStart

Init == InitHeaders \/ InitTables

Next ==
    \/ Normalize
    \/ Segregate
    \/ SegregateNoChain
    \/ AskYesNo
    \/ AskRtValues
    \/ ClassifyCall
    \/ SkipClassify

Spec == Init /\ [][Next]_vars

\* import_data up to the end of segregation (line 110), on runs of drift standards
NextSeg ==
    \/ Normalize
    \/ Segregate

SpecSeg == InitDrift /\ [][NextSeg]_vars

----------------------------------------------------------------------------
(* closest_rt, lines 153-162, and process_dataframe, lines 186-247.        *)

\* threshold=0.05, in percent
ThresholdPct == 5

Abs(x) == IF x < 0 THEN 0 - x ELSE x

\* line 158: df[df["Time"] == time_val]
sample_df(t, time_val) == SelectSeq(t, LAMBDA r : r.Time = time_val)

\* line 160: differences.min()
min_diff(sample, target_rt) ==
    LET D == {Abs(sample[i].Rt - target_rt) : i \in 1..Len(sample)}
    IN CHOOSE d \in D : \A e \in D : d <= e

\* lines 158-162 with a band of fixed width: differences <= min_diff + threshold
closest_rt_fixed_band(t, time_val, target_rt) ==
    LET sample == sample_df(t, time_val)
    IN SelectSeq(sample, LAMBDA r :
           Abs(r.Rt - target_rt) <= min_diff(sample, target_rt) + ThresholdPct)

\* lines 158-162; differences <= min_diff * (1 + threshold), both sides times 100.
\* No retention time of the model sits on the edge of the band, where the
\* rounding of the floating-point product would decide.
closest_rt(t, time_val, target_rt) ==
    LET sample == sample_df(t, time_val)
    IN SelectSeq(sample, LAMBDA r :
           100 * Abs(r.Rt - target_rt) <= min_diff(sample, target_rt) * (100 + ThresholdPct))

\* line 245 with a label left out of the list
ExportLabels_NoC24 == {"C16", "C18", "C20", "C22", "C26", "C28", "C30", "C32"}

\* line 245: the labels export_df keeps
ExportLabels == {"C16", "C18", "C20", "C22", "C24", "C26", "C28", "C30", "C32"}

\* line 190: df["chain"] = None
ResetChain(t) == [i \in 1..Len(t) |-> [t[i] EXCEPT !.chain = None]]

\* lines 203 and 242: df.loc[(df["Time"] == time_val) & (df["Rt"] == correct_rt), "chain"] = chain
Label(t, time_val, correct_rt, chain) ==
    [i \in 1..Len(t) |->
        IF t[i].Time = time_val /\ t[i].Rt = correct_rt
        THEN [t[i] EXCEPT !.chain = chain] ELSE t[i]]

\* the positions in chain_lengths of the reference entries that are not None
UsedChains == {k \in 1..Len(chain_lengths) : rt_dict.map[chain_lengths[k]] # <<>>}

MinOf(S) == CHOOSE k \in S : \A j \in S : k <= j

\* the loops of lines 192 and 197-198: the first (time_val, chain) whose rt is not None
FirstPos(times) ==
    IF UsedChains = {} THEN <<Len(times) + 1, 0>> ELSE <<1, MinOf(UsedChains)>>

\* the (time_val, chain) after (ti, ci)
NextPos ==
    IF \E k \in UsedChains : k > ci
    THEN <<ti, MinOf({k \in UsedChains : k > ci})>>
    ELSE <<ti + 1, MinOf(UsedChains)>>

InLoop == pc = "pd_loop" /\ ti <= Len(unique_times)

time_val == unique_times[ti]

chain == chain_lengths[ci]

rt == rt_dict.map[chain][1]

\* answers typed at the near-tie prompt
ChoiceInputs == {"none", "x", "0", "1", " 2 ", "9"}

\* the strings int() accepts
IntTable == ("0" :> 0) @@ ("1" :> 1) @@ ("2" :> 2) @@ ("9" :> 9)

\* closest_rows.iloc[k] is defined for -n <= k < n and counts from the end below 0
IlocDefined(rows, k) == 0 - Len(rows) <= k /\ k < Len(rows)

Iloc(rows, k) == IF k >= 0 THEN rows[k + 1] ELSE rows[Len(rows) + k + 1]

\* lines 187-188
PD_ReturnUnchanged ==
    /\ pc = "pd_begin"
    /\ rt_dict.kind = "None"
    /\ export_df' = df
    /\ out1' = IF pass = 1 THEN df ELSE out1
    /\ pc' = "pd_done"
    /\ UNCHANGED <<err, df, rt_dict, lastInput, pass, unique_times, ti, ci, closest_rows,
                   step, picks, declined, samePicks>>
    /\ UNCHANGED importVars

\* lines 189-191
PD_Begin ==
    /\ pc = "pd_begin"
    /\ rt_dict.kind = "dict"
    /\ df' = ResetChain(df)
    /\ unique_times' = Unique([i \in 1..Len(df) |-> df[i].Time])
    /\ ti' = FirstPos(unique_times')[1]
    /\ ci' = FirstPos(unique_times')[2]
    /\ pc' = "pd_loop"
    /\ UNCHANGED <<err, rt_dict, lastInput, pass, closest_rows, export_df, out1, step,
                   picks, declined, samePicks>>
    /\ UNCHANGED importVars

\* lines 199-203: exactly one row qualifies
PD_AssignSingle ==
    /\ InLoop
    /\ LET closest == closest_rt(df, time_val, rt)
           correct_rt == closest[1].Rt
       IN /\ Len(closest) = 1
          /\ df' = Label(df, time_val, correct_rt, chain)
          /\ step' = [kind |-> "single", time |-> time_val, chain |-> chain, before |-> df,
                      group |-> sample_df(df, time_val), cands |-> closest]
          /\ picks' = IF pass = 1 THEN picks \cup {<<time_val, chain, {correct_rt}>>} ELSE picks
    /\ ti' = NextPos[1]
    /\ ci' = NextPos[2]
    /\ UNCHANGED <<pc, err, rt_dict, lastInput, pass, unique_times, closest_rows, export_df,
                   out1, declined, samePicks>>
    /\ UNCHANGED importVars

\* lines 204-237: two or more rows qualify; the figure is drawn and the operator asked
PD_NearTie ==
    /\ InLoop
    /\ LET closest == closest_rt(df, time_val, rt)
       IN /\ Len(closest) > 1
          /\ closest_rows' = closest
          /\ step' = [kind |-> "prompt", time |-> time_val, chain |-> chain, before |-> df,
                      group |-> sample_df(df, time_val), cands |-> closest]
    /\ pc' = "pd_prompt"
    /\ UNCHANGED <<err, df, rt_dict, lastInput, pass, unique_times, ti, ci, export_df, out1,
                   picks, declined, samePicks>>
    /\ UNCHANGED importVars

\* lines 237-239: the answer 'none'
PD_ChoiceNone ==
    /\ pc = "pd_prompt"
    /\ \E text \in ChoiceInputs :
        /\ StripLower(text) = "none"
        /\ lastInput' = [prompt |-> "choice", text |-> text]
    /\ step' = [step EXCEPT !.kind = "declined"]
    /\ declined' = (declined \/ pass = 1)
    /\ picks' = IF pass = 1 THEN picks \cup {<<time_val, chain, {}>>} ELSE picks
    /\ samePicks' = (samePicks /\ (pass = 2 => <<time_val, chain, {}>> \in picks))
    /\ ti' = NextPos[1]
    /\ ci' = NextPos[2]
    /\ pc' = "pd_loop"
    /\ UNCHANGED <<err, df, rt_dict, pass, unique_times, closest_rows, export_df, out1>>
    /\ UNCHANGED importVars

\* lines 240-242: an answer int() accepts and iloc finds
PD_ChoicePick ==
    /\ pc = "pd_prompt"
    /\ \E text \in ChoiceInputs :
        LET choice == StripLower(text)
        IN /\ choice # "none"
           /\ choice \in DOMAIN IntTable
           /\ IlocDefined(closest_rows, IntTable[choice] - 1)
           /\ LET correct_rt == Iloc(closest_rows, IntTable[choice] - 1).Rt
              IN /\ df' = Label(df, time_val, correct_rt, chain)
                 /\ picks' = IF pass = 1 THEN picks \cup {<<time_val, chain, {correct_rt}>>}
                             ELSE picks
                 /\ samePicks' = (samePicks /\
                                    (pass = 2 => <<time_val, chain, {correct_rt}>> \in picks))
           /\ lastInput' = [prompt |-> "choice", text |-> text]
    /\ step' = [step EXCEPT !.kind = "pick"]
    /\ ti' = NextPos[1]
    /\ ci' = NextPos[2]
    /\ pc' = "pd_loop"
    /\ UNCHANGED <<err, rt_dict, pass, unique_times, closest_rows, export_df, out1, declined>>
    /\ UNCHANGED importVars

\* line 240, int(choice) raises ValueError; line 241, iloc raises IndexError
PD_ChoiceRaises ==
    /\ pc = "pd_prompt"
    /\ \E text \in ChoiceInputs :
        LET choice == StripLower(text)
        IN /\ choice # "none"
           /\ IF choice \notin DOMAIN IntTable
              THEN err' = "ValueError"
              ELSE ~IlocDefined(closest_rows, IntTable[choice] - 1) /\ err' = "IndexError"
           /\ lastInput' = [prompt |-> "choice", text |-> text]
    /\ pc' = "raised"
    /\ UNCHANGED <<df, rt_dict, pass, unique_times, ti, ci, closest_rows, export_df, out1,
                   step, picks, declined, samePicks>>
    /\ UNCHANGED importVars

\* lines 245-247
PD_Finish ==
    /\ pc = "pd_loop"
    /\ ti > Len(unique_times)
    /\ export_df' = SelectSeq(df, LAMBDA r : r.chain \in ExportLabels)
    /\ out1' = IF pass = 1 THEN export_df' ELSE out1
    /\ pc' = "pd_done"
    /\ UNCHANGED <<err, df, rt_dict, lastInput, pass, unique_times, ti, ci, closest_rows,
                   step, picks, declined, samePicks>>
    /\ UNCHANGED importVars

\* process_dataframe applied again, with the same rt_dict, to what it returned
PD_Reclassify ==
    /\ pc = "pd_done"
    /\ pass = 1
    /\ rt_dict.kind = "dict"
    /\ df' = export_df
    /\ pass' = 2
    /\ step' = NoStep
    /\ pc' = "pd_begin"
    /\ UNCHANGED <<err, rt_dict, lastInput, unique_times, ti, ci, closest_rows, export_df,
                   out1, picks, declined, samePicks>>
    /\ UNCHANGED importVars

\* rows of a table given to process_dataframe: two injections at one time of day
\* on different days, a third at another time; a stale label in the chain column
PdRows ==
    {[id |-> IdSample, Date |-> dt[1], Time |-> dt[2], Rt |-> r, chain |-> "C32"] :
        dt \in {<<1, 1>>, <<2, 1>>, <<1, 2>>}, r \in {49900, 50000, 50001, 50104}}

\* reference tables: entries for C18 and C24 only
PdDicts ==
    {[kind |-> "None", map |-> NoEntries]} \cup
    {[kind |-> "dict", map |-> [NoEntries EXCEPT !["C18"] = a, !["C24"] = b]] :
        a \in {<<>>, <<50000>>, <<50001>>}, b \in {<<>>, <<50000>>, <<50001>>}}

InitPD ==
    /\ pc = "pd_begin"
    /\ err = ""
    /\ isotope = "dD"
    /\ columns = NormalizeLoop(GoodHeaders("dD"), "dD", 1, 0)
    /\ df \in {WithIndex(t) : t \in SeqsUpTo(PdRows, MaxPdRows)}
    /\ linearity_std = <<>>
    /\ drift_std = <<>>
    /\ unknown = <<>>
    /\ rt_dict \in PdDicts
    /\ lastInput = [prompt |-> "", text |-> ""]
    /\ returned = FALSE
    /\ correction_log = <<>>
    /\ pass = 1
    /\ unique_times = <<>>
    /\ ti = 0
    /\ ci = 0
    /\ closest_rows = <<>>
    /\ export_df = <<>>
    /\ out1 = <<>>
    /\ step = NoStep
    /\ picks = {}
    /\ declined = FALSE
    /\ samePicks = TRUE

NextPD ==
    \/ PD_ReturnUnchanged
    \/ PD_Begin
    \/ PD_AssignSingle
    \/ PD_NearTie
    \/ PD_ChoiceNone
    \/ PD_ChoicePick
    \/ PD_ChoiceRaises
    \/ PD_Finish
    \/ PD_Reclassify

SpecPD == InitPD /\ [][NextPD]_vars

----------------------------------------------------------------------------
(* Properties of import_data.                                              *)

Segregated == pc \in {"ask_yn", "ask_rt", "classify", "returned"} \/ err \in {"ValueError", "TypeError"}

IdxSet(t) == {t[i].idx : i \in 1..Len(t)}

\* the two smallest values of a set of timestamps
TwoSmallest(S) == {t \in S : Cardinality({u \in S : u < t}) < 2}

\* the rows of the table that are drift standards, by the text of the claim
IsDriftStandard(r) == {"C18", "C24"} \subseteq r.id /\ r.chain \in {"C18", "C24"}

DriftStandards == {df[i] : i \in {j \in 1..Len(df) : IsDriftStandard(df[j])}}

DriftTimestamps == {DateNum(r) : r \in DriftStandards}

\* the rows of t are in the relative order they have in the input table
InInputOrder(t) == \A i, j \in 1..Len(t) : i < j => t[i].idx < t[j].idx

\* C1: no row is in more than one of linearity_std, drift_std and unknown, at
\* the end of segregation and in every later state of the run.
C1_RowDisjoint ==
    /\ IdxSet(linearity_std) \cap IdxSet(drift_std) = {}
    /\ IdxSet(linearity_std) \cap IdxSet(unknown) = {}
    /\ IdxSet(drift_std) \cap IdxSet(unknown) = {}

\* a finished run whose table has a row with all four markers, kept as a
\* linearity standard, beside drift standards that survived the exclusion
C1_Witness ==
    /\ pc = "returned"
    /\ drift_std # <<>>
    /\ \E i \in 1..Len(linearity_std) : linearity_std[i].id = IdBoth

\* C2: after the exclusion step drift_std holds exactly the drift-standard rows
\* whose timestamp is not one of the two smallest distinct timestamps among the
\* drift-standard rows, whatever the input order; with two or fewer distinct
\* timestamps it is empty.
C2_DriftExclusion ==
    Segregated =>
        /\ LET earliest == TwoSmallest(DriftTimestamps)
           IN Range(drift_std) = {r \in DriftStandards : DateNum(r) \notin earliest}
        /\ Len(drift_std) = Cardinality(Range(drift_std))
        /\ (Cardinality(DriftTimestamps) <= 2 => drift_std = <<>>)

\* five distinct drift timestamps, given out of chronological order: the rows
\* of the three latest are what is left
C2_Witness ==
    /\ Segregated
    /\ Cardinality(DriftTimestamps) = 5
    /\ DateNum(df[1]) > DateNum(df[Len(df)])
    /\ Len(drift_std) = 3

\* C3 (as claimed): once the operator has answered yes and entered a valid
\* reference table, the run ends by returning its four values.
C3_RunReturns ==
    (Truthy(rt_dict) /\ pc \in {"returned", "raised"}) => (pc = "returned" /\ returned)

\* the answers the specification calls invalid
InvalidYesNo(text) == ~pos_response(StripLower(text)) /\ ~neg_response(StripLower(text))

InvalidRtList(text) ==
    \/ Len(Split(text)) # Len(chain_lengths)
    \/ \E k \in 1..Len(Split(text)) :
          StripLower(Split(text)[k]) # "none" /\ ~IsFloat(StripLower(Split(text)[k]))

InvalidChoice(text, n) ==
    /\ StripLower(text) # "none"
    /\ ~(\E k \in 1..n : StripLower(text) = ToString(k))

\* C4 (as claimed): after an invalid answer the operator is asked again; the
\* run has not ended with an error and no reference value or label was chosen.
C4_InvalidInputReprompts ==
    /\ (lastInput.prompt = "yn" /\ InvalidYesNo(lastInput.text)) =>
           (pc \in {"ask_yn"} /\ err = "" /\ rt_dict.kind = "unset")
    /\ (lastInput.prompt = "rt" /\ InvalidRtList(lastInput.text)) =>
           (pc \in {"ask_yn", "ask_rt"} /\ err = "" /\ rt_dict.kind = "unset")
    /\ (lastInput.prompt = "choice" /\ InvalidChoice(lastInput.text, Len(closest_rows))) =>
           (pc = "pd_prompt" /\ err = "" /\ step.kind # "pick")

\* the headers read from the file that contain the text n
SourceContaining(n) ==
    {i \in 1..Len(columns) : columns[i].origin # <<>> /\ columns[i].origin[1] = n}

\* C5 (as claimed): after normalisation each canonical column exists; it holds
\* the data of the source column when one contains the expected text, and is a
\* new column of missing values otherwise.
C5_CanonicalColumns ==
    pc # "normalize" =>
        \A k \in 1..3 :
            \E i \in 1..Len(columns) :
                /\ columns[i].name = new_name(isotope)[k]
                /\ ~columns[i].extra
                /\ IF SourceContaining(source_names(isotope)[k]) # {}
                   THEN i \in SourceContaining(source_names(isotope)[k])
                   ELSE columns[i].origin = <<>>

\* C8 (as claimed): the rows of each of the three outputs are in input order.
C8_InputOrderKept ==
    /\ InInputOrder(linearity_std)
    /\ InInputOrder(drift_std)
    /\ InInputOrder(unknown)

\* C8 (amended): linearity_std and unknown are in input order; drift_std is in
\* ascending order of timestamp.
C8_OrderAmended ==
    /\ InInputOrder(linearity_std)
    /\ InInputOrder(unknown)
    /\ \A i, j \in 1..Len(drift_std) : i < j => DateNum(drift_std[i]) <= DateNum(drift_std[j])

\* two drift rows that survive the exclusion and come out in the reverse of
\* their input order
C8_Witness ==
    /\ Segregated
    /\ Len(drift_std) >= 2
    /\ drift_std[1].idx > drift_std[2].idx
    /\ DateNum(drift_std[1]) < DateNum(drift_std[2])

----------------------------------------------------------------------------
(* Properties of process_dataframe and closest_rt.                         *)

\* the positions whose chain label differs between two states of the table
Changed(before, after) == {i \in 1..Len(after) : before[i].chain # after[i].chain}

RtsOf(t) == {t[i].Rt : i \in 1..Len(t)}

\* the loop is about to handle a group of two rows, at 500 and 500.01, for a
\* reference retention time of 500
AtExactPair ==
    /\ InLoop
    /\ Len(sample_df(df, time_val)) = 2
    /\ RtsOf(sample_df(df, time_val)) = {50000, 50001}
    /\ rt = 50000

\* the latest step handled such a group for such a reference
StepAtExactPair ==
    /\ step.kind # "none"
    /\ Len(step.group) = 2
    /\ RtsOf(step.group) = {50000, 50001}
    /\ rt_dict.map[step.chain] = <<50000>>

\* C6 (as claimed): a second application with the same reference table returns
\* the rows and labels of the first, whatever the operator answered in the
\* first ('none' included), the prompts of the second being answered alike.
C6_Idempotent == (pc = "pd_done" /\ pass = 2 /\ samePicks) => export_df = out1

\* C6 (amended): a second application returns the rows and labels of the first
\* when no prompt of the first was answered 'none' and every prompt of the
\* second is answered with the retention time picked in the first.
C6_IdempotentWithoutDecline ==
    (pc = "pd_done" /\ pass = 2 /\ ~declined /\ samePicks) => export_df = out1

\* a second application that ended with a prompt, answered as in the first
C6_Witness ==
    /\ pc = "pd_done"
    /\ pass = 2
    /\ ~declined
    /\ samePicks
    /\ step.kind = "pick"
    /\ export_df # <<>>

\* C7 (as claimed): for rows at 500 and 500.01 and a reference of 500,
\* closest_rt returns both rows and process_dataframe prompts.
C7_NearTiePrompts ==
    /\ AtExactPair => Len(closest_rt(df, time_val, rt)) = 2
    /\ StepAtExactPair => step.kind \in {"prompt", "pick", "declined"}

\* C7 (amended): for rows at 500 and 500.01 and a reference of 500, closest_rt
\* returns the row at 500 alone and process_dataframe labels it without a prompt.
C7_ExactMatchAssigned ==
    /\ AtExactPair =>
           /\ Len(closest_rt(df, time_val, rt)) = 1
           /\ closest_rt(df, time_val, rt)[1].Rt = 50000
    /\ StepAtExactPair =>
           /\ step.kind = "single"
           /\ \A i \in 1..Len(df) :
                  (df[i].Time = step.time /\ df[i].Rt = 50000) => df[i].chain = step.chain
           /\ \A i \in 1..Len(df) :
                  (df[i].Time = step.time /\ df[i].Rt = 50001) =>
                      df[i].chain = step.before[i].chain

\* the row at 500 of such a group has just been labelled
C7_Witness ==
    /\ StepAtExactPair
    /\ step.kind = "single"
    /\ \E i \in 1..Len(df) : df[i].Rt = 50000 /\ df[i].chain = step.chain

\* C9 (as claimed): one step for one chain and one group changes the label of at
\* most one row, of none when the operator answered 'none', and of no row of
\* another group.
C9_OneRowPerStep ==
    step.kind \in {"single", "pick", "declined"} =>
        /\ Cardinality(Changed(step.before, df)) <= 1
        /\ step.kind = "declined" => Changed(step.before, df) = {}
        /\ \A i \in Changed(step.before, df) : df[i].idx \in IdxSet(step.group)

\* C10 (as claimed): the rows handled as one group are the rows of one
\* injection, those that share the date and the time.
C10_GroupIsOneInjection ==
    step.kind # "none" =>
        /\ \A r, q \in Range(step.group) : r.Date = q.Date /\ r.Time = q.Time
        /\ \A i \in 1..Len(step.before) :
               (\E q \in Range(step.group) :
                    step.before[i].Date = q.Date /\ step.before[i].Time = q.Time)
                   => step.before[i].idx \in IdxSet(step.group)

====
